---- MODULE Spec2Model ----
(***************************************************************************)
(* TweeterDataCollector: the Collector (data_getter.py) and the Model      *)
(* Layer (tweet.py) as one state machine.  One operation of the program    *)
(* runs at a time (the program is single-threaded and blocking); an        *)
(* operation that makes several calls of the external API client takes one *)
(* step per external call.                                                 *)
(***************************************************************************)
EXTENDS Integers, Sequences, FiniteSets, TLC

(* ---------------------------------------------------------------------- *)
(* Program constants and the bounds of the model                          *)
(* ---------------------------------------------------------------------- *)

\* DataGetter.MAX_COUNT
MAX_COUNT == 200

\* time.sleep(15) in DataGetter.stream
SLEEP_SECONDS == 15

\* requested counts 0..MaxSmallCount are tried besides the large ones
MaxSmallCount == 2

\* a page may hold up to MaxShort items fewer than the count asked for
MaxShort == 1

\* the ids of a page may skip up to MaxGap ids below the cursor
MaxGap == 1

\* the newest id of a timeline
NewestId == 1000

\* get_historical and stream are called with at most MaxUsers handles
MaxUsers == 2

\* the stream is followed for at most MaxEvents events
MaxEvents == 5

\* retweeted_status links nest to at most MaxDepth levels
MaxDepth == 2

\* tweets_to_df is called with at most MaxRows tweets
MaxRows == 2

\* a method that returns more than asked is called at most MaxCalls times
MaxCalls == 3

\* Python's None; Some(x) wraps a value that may be None
None == <<>>

Some(x) == <<x>>

Min(a, b) == IF a <= b THEN a ELSE b

\* the handles a caller may name
Handles == {"alice", "bob", "dave"}

\* the author of the posts of the home timeline
HomeAuthor == "carol"

\* requested_count = 450 with a page size of 200: two full pages and 50
ExampleCount == 2 * MAX_COUNT + 50

\* the counts a caller asks for
Counts == (0..MaxSmallCount) \cup {MAX_COUNT, MAX_COUNT + 1, ExampleCount}

\* the counts get_historical is called with (per user): small ones, which
\* already take several pages when the API answers with fewer items than asked
HistoricalCounts == 0..MaxSmallCount

\* the lists of handles a caller passes: no handle twice, in any order
UserLists == {us \in UNION {[1..n -> Handles] : n \in 0..MaxUsers} :
                \A i, j \in DOMAIN us : i # j => us[i] # us[j]}

VARIABLES
    op,         \* the operation running or last run ("idle" before any)
    pc,         \* its position: "idle", "loop", "filter", "sleep", "done"
    outcome,    \* "none" while running, then "returned" or "raised"
    ret,        \* the value returned (None when nothing was returned)
    cnt,        \* collect_tweets: cnt
    oldest_id,  \* collect_tweets: oldest_id (None or Some(id))
    result,     \* collect_tweets: result
    requested,  \* collect_tweets: the argument count
    users,      \* get_historical / stream: the argument users
    user_idx,   \* get_historical: position of the for loop in users
    h_result,   \* get_historical: result
    calls,      \* every fetch call issued by the operation, with its answer
    users_id,   \* stream: users_id (None before the lookup)
    events,     \* stream: what happened, in order
    data_in,    \* Tweet.deserializer: the payload (for a list of tweets: the
                \* payloads) as passed in
    data,       \* Tweet.deserializer: the payload object after the call
    tweet,      \* the Tweet built by Tweet.deserializer
    printed,    \* the lines returned by pretty_print
    quote,      \* the pair returned by get_quote
    tweets,     \* tweets_to_df: the argument tweets
    table       \* the DataFrame returned by tweets_to_df

vars == <<op, pc, outcome, ret, cnt, oldest_id, result, requested, users,
          user_idx, h_result, calls, users_id, events, data_in, data, tweet,
          printed, quote, tweets, table>>

collectVars == <<cnt, oldest_id, result, requested, calls>>
historicalVars == <<users, user_idx, h_result>>
streamVars == <<users_id, events>>
tableVars == <<quote, tweets, table>>
tweetVars == <<data_in, data, tweet, printed, tableVars>>

(* ---------------------------------------------------------------------- *)
(* Model Layer: Tweet.deserializer                                        *)
(* ---------------------------------------------------------------------- *)

Has(d, key) == key \in DOMAIN d

\* the keys every payload of the model carries.  Of the keys the deserializer
\* reads, the model keeps those that the text resolution, the nesting and the
\* presentation helpers depend on; the other required keys (source, entities,
\* counters, ...) are copied into the Tweet unread by anything modelled here.
BasePayload(tag, d, tr) ==
    [id |-> d, created_at |-> "now", user |-> [screen_name |-> tag],
     text |-> tag \o ".text", truncated |-> tr]

\* a payload without nested posts: ft = it has the key full_text,
\* ext = it has the key extended_tweet
LeafPayload(tag, d, ft, tr, ext) ==
    LET a == BasePayload(tag, d, tr)
        b == IF ft THEN a @@ [full_text |-> tag \o ".full_text"] ELSE a
    IN  IF ext THEN b @@ [extended_tweet |-> [full_text |-> tag \o ".extended"]]
        ELSE b

\* quoted posts carry no nested post of their own
QuotedPayloads(tag) ==
    {LeafPayload(tag, 0, ft, FALSE, FALSE) : ft \in BOOLEAN}

\* the shapes <<ft, tr, ext>> of an outermost and of a nested post
Shapes(top) ==
    IF top THEN BOOLEAN \X BOOLEAN \X BOOLEAN
    ELSE {<<FALSE, FALSE, FALSE>>, <<FALSE, FALSE, TRUE>>, <<TRUE, FALSE, FALSE>>}

WithNested(leaf, rt, qt) ==
    LET a == IF rt = None THEN leaf ELSE leaf @@ [retweeted_status |-> rt[1]]
    IN  IF qt = None THEN a ELSE a @@ [quoted_status |-> qt[1]]

RECURSIVE Payloads(_, _, _)
\* the post payloads whose retweeted_status links nest at most d levels
Payloads(tag, d, top) ==
    LET rts == IF d = 0 THEN {None}
               ELSE {None} \cup {Some(p) : p \in Payloads(tag \o ".rt", d - 1, FALSE)}
        qts == {None} \cup {Some(q) : q \in QuotedPayloads(tag \o ".qt")}
    IN  {WithNested(LeafPayload(tag, d, s[1], s[2], s[3]), rt, qt) :
            s \in Shapes(top), rt \in rts, qt \in qts}

TweetPayloads == Payloads("top", MaxDepth, TRUE)

\* FullText looking at the retweeted post's extension before the post's own
FullText_RetweetFirst(d) ==
    IF Has(d, "full_text") THEN d.full_text
    ELSE IF Has(d, "retweeted_status") /\ Has(d.retweeted_status, "extended_tweet")
         THEN d.retweeted_status.extended_tweet.full_text
    ELSE IF d.truncated /\ Has(d, "extended_tweet") THEN d.extended_tweet.full_text
    ELSE d.text

\* Tweet.deserializer, lines 333-339 and 344: the text the Tweet gets
FullText(d) ==
    IF Has(d, "full_text") THEN d.full_text
    ELSE IF d.truncated /\ Has(d, "extended_tweet") THEN d.extended_tweet.full_text
    ELSE IF Has(d, "retweeted_status") /\ Has(d.retweeted_status, "extended_tweet")
         THEN d.retweeted_status.extended_tweet.full_text
    ELSE d.text

RECURSIVE Deserializer(_)
\* Tweet.deserializer: the Tweet it returns
Deserializer(d) ==
    [created_at |-> d.created_at,
     id |-> d.id,
     full_text |-> FullText(d),
     user |-> [screen_name |-> d.user.screen_name],
     quoted_status |-> IF Has(d, "quoted_status")
                       THEN Deserializer(d.quoted_status) ELSE None,
     retweeted_status |-> IF Has(d, "retweeted_status")
                          THEN Deserializer(d.retweeted_status) ELSE None]

\* lines 333-339: the assignment data['full_text'] = ... on the dict passed in
StoreFullText(d) ==
    IF Has(d, "full_text") THEN d ELSE d @@ [full_text |-> FullText(d)]

RECURSIVE DeserializerData(_)
\* Tweet.deserializer: the dict passed in, as the call leaves it (the nested
\* dicts are passed to the recursive calls of lines 354 and 362)
DeserializerData(d) ==
    LET a == StoreFullText(d)
        b == IF Has(a, "quoted_status")
             THEN [a EXCEPT !.quoted_status = DeserializerData(@)] ELSE a
    IN  IF Has(b, "retweeted_status")
        THEN [b EXCEPT !.retweeted_status = DeserializerData(@)] ELSE b

\* parse_tweets.outer_parser: the list comprehension of line 16
parse_tweets(statuses) ==
    [i \in DOMAIN statuses |-> Deserializer(statuses[i])]

(* ---------------------------------------------------------------------- *)
(* Collector: presentation helpers                                        *)
(* ---------------------------------------------------------------------- *)

\* Python truthiness of an Optional[Tweet]: a Tweet object is always truthy
Truthy(t) == t # None

\* pretty_print testing the post's own quoted_status before retweeted_status
pretty_print_QuoteFirst(t) ==
    IF Truthy(t.quoted_status)
    THEN <<"A new quoted tweet",
           "sender: " \o t.user.screen_name,
           "quoted from: " \o t.quoted_status.user.screen_name,
           "quote text: " \o t.full_text,
           "origin text: " \o t.quoted_status.full_text>>
    ELSE IF Truthy(t.retweeted_status) /\ ~Truthy(t.retweeted_status.quoted_status)
    THEN <<"A new retweet",
           "sender: " \o t.user.screen_name,
           "retweet from: " \o t.retweeted_status.user.screen_name,
           "text: " \o t.retweeted_status.full_text>>
    ELSE IF Truthy(t.retweeted_status)
    THEN <<"A new retweet",
           "sender: " \o t.user.screen_name,
           "retweet from: " \o t.retweeted_status.user.screen_name,
           "quoted from: " \o t.retweeted_status.quoted_status.user.screen_name,
           "text: " \o t.retweeted_status.full_text,
           "origin text: " \o t.retweeted_status.quoted_status.full_text>>
    ELSE <<"A new tweet",
           "sender: " \o t.user.screen_name,
           "text: " \o t.full_text>>

\* pretty_print: the lines of the string it returns
pretty_print(t) ==
    IF Truthy(t.retweeted_status) /\ ~Truthy(t.retweeted_status.quoted_status)
    THEN <<"A new retweet",
           "sender: " \o t.user.screen_name,
           "retweet from: " \o t.retweeted_status.user.screen_name,
           "text: " \o t.retweeted_status.full_text>>
    ELSE IF Truthy(t.retweeted_status)
    THEN <<"A new retweet",
           "sender: " \o t.user.screen_name,
           "retweet from: " \o t.retweeted_status.user.screen_name,
           "quoted from: " \o t.retweeted_status.quoted_status.user.screen_name,
           "text: " \o t.retweeted_status.full_text,
           "origin text: " \o t.retweeted_status.quoted_status.full_text>>
    ELSE IF Truthy(t.quoted_status)
    THEN <<"A new quoted tweet",
           "sender: " \o t.user.screen_name,
           "quoted from: " \o t.quoted_status.user.screen_name,
           "quote text: " \o t.full_text,
           "origin text: " \o t.quoted_status.full_text>>
    ELSE <<"A new tweet",
           "sender: " \o t.user.screen_name,
           "text: " \o t.full_text>>

RECURSIVE get_quote_OwnQuoteFirst(_)
\* get_quote looking at the post's own quoted_status before following
\* retweeted_status
get_quote_OwnQuoteFirst(t) ==
    IF Truthy(t.quoted_status)
    THEN <<Some(t.quoted_status.user.screen_name), Some(t.quoted_status.full_text)>>
    ELSE IF Truthy(t.retweeted_status)
    THEN get_quote_OwnQuoteFirst(t.retweeted_status)
    ELSE <<None, None>>

RECURSIVE get_quote(_)
\* get_quote: the pair (sender of the quoted tweet, its text), each None or
\* Some(string)
get_quote(t) ==
    IF Truthy(t.retweeted_status) THEN get_quote(t.retweeted_status)
    ELSE IF ~Truthy(t.quoted_status) THEN <<None, None>>
    ELSE <<Some(t.quoted_status.user.screen_name), Some(t.quoted_status.full_text)>>

\* Python truthiness of an Optional[str]: None and '' are falsy
TruthyStr(o) == o # None /\ o[1] # ""

\* the payloads the tweets of a table are built from: a post with or without
\* the key full_text, plain or quoting, or retweeting a plain post or a quote
RowPayloads ==
    LET quoted(tag) == LeafPayload(tag, 0, TRUE, FALSE, FALSE)
        rts == {Some(WithNested(LeafPayload("row.rt", 0, TRUE, FALSE, FALSE), None, q)) :
                   q \in {None, Some(quoted("row.rt.qt"))}}
    IN  {WithNested(LeafPayload("row", 1, ft, FALSE, FALSE), rt, qt) :
            ft \in BOOLEAN, rt \in {None} \cup rts,
            qt \in {None, Some(quoted("row.qt"))}}

\* the lists of payloads a table is made of
RowPayloadLists == UNION {[1..n -> RowPayloads] : n \in 0..MaxRows}

\* the columns of the DataFrame, lines 211-220
Columns ==
    <<"create time", "sender", "text", "is_retweet", "retweet_sender",
      "is_quote", "quoted_tweet_sender", "quoted_tweet_text">>

\* TableRow writing False, not None, into is_quote for a post without a quote
TableRow_QuoteFalse(t) ==
    <<t.created_at,
      t.user.screen_name,
      t.full_text,
      IF Truthy(t.retweeted_status) THEN TRUE ELSE FALSE,
      IF ~Truthy(t.retweeted_status) THEN None
      ELSE Some(t.retweeted_status.user.screen_name),
      IF TruthyStr(get_quote(t)[1]) THEN Some(TRUE) ELSE Some(FALSE),
      get_quote(t)[1],
      get_quote(t)[2]>>

\* tweets_to_df, lines 201-210: the row of one tweet; a cell that may be None
\* is None or Some(value)
TableRow(t) ==
    <<t.created_at,
      t.user.screen_name,
      t.full_text,
      IF Truthy(t.retweeted_status) THEN TRUE ELSE FALSE,
      IF ~Truthy(t.retweeted_status) THEN None
      ELSE Some(t.retweeted_status.user.screen_name),
      IF TruthyStr(get_quote(t)[1]) THEN Some(TRUE) ELSE None,
      get_quote(t)[1],
      get_quote(t)[2]>>

\* tweets_to_df: the DataFrame, as its columns and its rows
tweets_to_df(ts) ==
    [columns |-> Columns, rows |-> [i \in DOMAIN ts |-> TableRow(ts[i])]]

(* ---------------------------------------------------------------------- *)
(* Collector: verify_authentication                                       *)
(* ---------------------------------------------------------------------- *)

\* what api.verify_credentials() may do: return a user record, return a
\* falsy value, or raise
CredentialAnswers == {"identity", "falsy", "raised"}

\* verify_authentication without the except clause of lines 74-75
verify_authentication_Propagates(answer) ==
    IF answer = "raised" THEN [outcome |-> "raised", ret |-> None]
    ELSE [outcome |-> "returned", ret |-> Some(answer = "identity")]

\* verify_authentication, lines 72-75, for an answer of verify_credentials
verify_authentication(answer) ==
    IF answer = "raised" THEN [outcome |-> "returned", ret |-> Some(FALSE)]
    ELSE [outcome |-> "returned", ret |-> Some(answer = "identity")]

(* ---------------------------------------------------------------------- *)
(* Collector: collect_tweets, get_timeline_tweets, get_historical         *)
(* ---------------------------------------------------------------------- *)

\* the _json of a status of a timeline fetched with tweet_mode='extended'
StatusJson(i, author) ==
    [id |-> i, created_at |-> "now", user |-> [screen_name |-> author],
     truncated |-> FALSE, full_text |-> author \o ".post"]

\* a page the API answers with: n statuses of descending ids, the newest
\* one gap below top
Page(top, n, gap, author) ==
    [k \in 1..n |-> StatusJson(top - gap - (k - 1), author)]

\* the sizes of the pages the API may answer with when asked for `count`:
\* count is an upper limit for the timeline calls, so a page holds count
\* items, up to MaxShort fewer, or none
PageSizes(count) ==
    {0} \cup {count - k : k \in {j \in 0..MaxShort : count - j >= 1}}

\* the `while cnt:` test of line 95
WhileCnt(c) == c # 0

\* FetchArgs with the cursor set to the oldest id itself: the last item of
\* a page would be fetched again
FetchArgs_NoDecrement(c, oid) ==
    [count |-> Min(MAX_COUNT, c),
     max_id |-> IF oid = None THEN None ELSE Some(oid[1])]

\* FetchArgs asking for all that remains, whatever the page size
FetchArgs_Uncapped(c, oid) ==
    [count |-> c,
     max_id |-> IF oid = None THEN None ELSE Some(oid[1] - 1)]

\* lines 96-112: the keyword arguments of the call of method
FetchArgs(c, oid) ==
    [count |-> Min(MAX_COUNT, c),
     max_id |-> IF oid = None THEN None ELSE Some(oid[1] - 1)]

\* AfterPage without the break of lines 113-114: an empty page is handled
\* like any other
AfterPage_NoBreak(c, oid, res, new_tweets) ==
    [cnt |-> c - Len(new_tweets),
     oldest_id |-> IF Len(new_tweets) = 0 THEN oid
                   ELSE Some(new_tweets[Len(new_tweets)].id),
     result |-> res \o new_tweets,
     break |-> FALSE]

\* AfterPage without the `cnt -= len(new_tweets)` of line 117
AfterPage_KeepsCount(c, oid, res, new_tweets) ==
    IF Len(new_tweets) = 0
    THEN [cnt |-> c, oldest_id |-> oid, result |-> res, break |-> TRUE]
    ELSE [cnt |-> c,
          oldest_id |-> Some(new_tweets[Len(new_tweets)].id),
          result |-> res \o new_tweets,
          break |-> FALSE]

\* lines 113-117: what one turn of the loop does with the page it got
AfterPage(c, oid, res, new_tweets) ==
    IF Len(new_tweets) = 0
    THEN [cnt |-> c, oldest_id |-> oid, result |-> res, break |-> TRUE]
    ELSE [cnt |-> c - Len(new_tweets),
          oldest_id |-> Some(new_tweets[Len(new_tweets)].id),
          result |-> res \o new_tweets,
          break |-> FALSE]

\* lines 92-94: the locals of collect_tweets as a run starts
StartRun(count) == [cnt |-> count, oldest_id |-> None, result |-> <<>>]

\* ExtendResult putting the tweets of the latest user first
ExtendResult_Prepend(res, collected) == collected \o res

\* get_historical, line 143: result.extend(<the tweets of one user>)
ExtendResult(res, collected) == res \o collected

\* the API method a fetch call of the running operation goes to
Method == IF op = "get_historical" THEN "user_timeline" ELSE "home_timeline"

\* the screen_name keyword of the fetch calls (line 147), None for the
\* home timeline (lines 127-131)
ScreenName == IF op = "get_historical" THEN Some(users[user_idx]) ELSE None

\* the author of the statuses the API answers with
Author == IF op = "get_historical" THEN users[user_idx] ELSE HomeAuthor

\* the gaps between the cursor and the newest id of a page: the home
\* timeline skips ids (posts of accounts not followed), and a user timeline
\* is taken to answer with consecutive ids
Gaps == IF op = "get_historical" THEN {0} ELSE 0..MaxGap

\* the log entry of a fetch call and its answer
FetchCall(args, answer, page) ==
    [method |-> Method, screen_name |-> ScreenName, count |-> args.count,
     max_id |-> args.max_id, answer |-> answer, page |-> page]

Init ==
    /\ op = "idle"
    /\ pc = "idle"
    /\ outcome = "none"
    /\ ret = None
    /\ cnt = 0
    /\ oldest_id = None
    /\ result = <<>>
    /\ requested = 0
    /\ users = <<>>
    /\ user_idx = 0
    /\ h_result = <<>>
    /\ calls = <<>>
    /\ users_id = None
    /\ events = <<>>
    /\ data_in = None
    /\ data = None
    /\ tweet = None
    /\ printed = None
    /\ quote = None
    /\ tweets = <<>>
    /\ table = None

\* verify_authentication()
CallVerifyAuthentication ==
    /\ pc = "idle"
    /\ \E answer \in CredentialAnswers :
          LET r == verify_authentication(answer)
          IN  /\ calls' = <<[method |-> "verify_credentials", answer |-> answer]>>
              /\ outcome' = r.outcome
              /\ ret' = r.ret
    /\ op' = "verify_authentication"
    /\ pc' = "done"
    /\ UNCHANGED <<cnt, oldest_id, result, requested>>
    /\ UNCHANGED <<historicalVars, streamVars, tweetVars>>

\* get_timeline_tweets(count), up to its first fetch call
CallGetTimelineTweets ==
    /\ pc = "idle"
    /\ \E count \in Counts :
          LET s == StartRun(count)
          IN  /\ requested' = count
              /\ cnt' = s.cnt
              /\ oldest_id' = s.oldest_id
              /\ result' = s.result
              /\ IF WhileCnt(s.cnt)
                 THEN pc' = "loop" /\ UNCHANGED <<outcome, ret>>
                 ELSE /\ pc' = "done"
                      /\ outcome' = "returned"
                      /\ ret' = Some(parse_tweets(s.result))
    /\ op' = "get_timeline_tweets"
    /\ UNCHANGED <<calls, historicalVars, streamVars, tweetVars>>

\* get_historical(count, users), up to its first fetch call
CallGetHistorical ==
    /\ pc = "idle"
    /\ \E count \in HistoricalCounts, us \in UserLists :
          LET s == StartRun(count)
          IN  /\ requested' = count
              /\ users' = us
              /\ cnt' = s.cnt
              /\ oldest_id' = s.oldest_id
              /\ result' = s.result
              /\ h_result' = <<>>
              /\ IF us # <<>> /\ WhileCnt(s.cnt)
                 THEN /\ pc' = "loop"
                      /\ user_idx' = 1
                      /\ UNCHANGED <<outcome, ret>>
                 ELSE /\ pc' = "done"
                      /\ user_idx' = Len(us)
                      /\ outcome' = "returned"
                      /\ ret' = Some(parse_tweets(<<>>))
    /\ op' = "get_historical"
    /\ UNCHANGED <<calls, streamVars, tweetVars>>

\* a fetch call of collect_tweets raises: nothing catches it
FetchRaises ==
    /\ pc = "loop"
    /\ WhileCnt(cnt)
    /\ calls' = Append(calls, FetchCall(FetchArgs(cnt, oldest_id), "raised", <<>>))
    /\ pc' = "done"
    /\ outcome' = "raised"
    /\ UNCHANGED <<op, ret, cnt, oldest_id, result, requested>>
    /\ UNCHANGED <<historicalVars, streamVars, tweetVars>>

\* one turn of the loop of collect_tweets whose fetch call returns a page of
\* n items, the newest one gap below the cursor,
\* and, when the loop ends with it, the rest of the operation up to its next
\* fetch call or its return
LoopTurn(n, gap) ==
          LET args == FetchArgs(cnt, oldest_id)
              top == IF args.max_id = None THEN NewestId ELSE args.max_id[1]
              new_tweets == Page(top, n, gap, Author)
              s == AfterPage(cnt, oldest_id, result, new_tweets)
              h == ExtendResult(h_result, s.result)
              next == StartRun(requested)
          IN  /\ calls' = Append(calls, FetchCall(args, "page", new_tweets))
              /\ IF ~s.break /\ WhileCnt(s.cnt)
                 THEN /\ cnt' = s.cnt
                      /\ oldest_id' = s.oldest_id
                      /\ result' = s.result
                      /\ UNCHANGED <<pc, outcome, ret, user_idx, h_result>>
                 ELSE IF op = "get_timeline_tweets"
                 THEN /\ cnt' = s.cnt
                      /\ oldest_id' = s.oldest_id
                      /\ result' = s.result
                      /\ pc' = "done"
                      /\ outcome' = "returned"
                      /\ ret' = Some(parse_tweets(s.result))
                      /\ UNCHANGED <<user_idx, h_result>>
                 ELSE IF user_idx < Len(users)
                 THEN /\ h_result' = h
                      /\ user_idx' = user_idx + 1
                      /\ cnt' = next.cnt
                      /\ oldest_id' = next.oldest_id
                      /\ result' = next.result
                      /\ UNCHANGED <<pc, outcome, ret>>
                 ELSE /\ h_result' = h
                      /\ cnt' = s.cnt
                      /\ oldest_id' = s.oldest_id
                      /\ result' = s.result
                      /\ pc' = "done"
                      /\ outcome' = "returned"
                      /\ ret' = Some(parse_tweets(h))
                      /\ UNCHANGED user_idx

\* a fetch call of collect_tweets returns a page of at most the count asked
\* for
FetchReturns ==
    /\ pc = "loop"
    /\ WhileCnt(cnt)
    /\ \E n \in PageSizes(FetchArgs(cnt, oldest_id).count), gap \in Gaps :
          LoopTurn(n, gap)
    /\ UNCHANGED <<op, requested, users, streamVars, tweetVars>>

\* the size of a page of a method that does not keep to the count asked for:
\* one item more, and one item when asked for none or fewer
OvershootSize(count) == IF count >= 0 THEN count + 1 ELSE 1

\* a fetch call of collect_tweets returns more items than it was asked for
\* (collect_tweets takes any callable as its method)
FetchOvershoots ==
    /\ pc = "loop"
    /\ WhileCnt(cnt)
    /\ Len(calls) < MaxCalls
    /\ LoopTurn(OvershootSize(FetchArgs(cnt, oldest_id).count), 0)
    /\ UNCHANGED <<op, requested, users, streamVars, tweetVars>>

(* ---------------------------------------------------------------------- *)
(* Collector: stream                                                      *)
(* ---------------------------------------------------------------------- *)

\* line 161: the id_str of the users api.lookup_users answers with
LookupIds(us) == [i \in DOMAIN us |-> "id:" \o us[i]]

\* what stream.filter may raise: urllib3's ProtocolError or anything else
StreamExceptions == {"ProtocolError", "TweepError"}

\* the status codes the stream may report to Listener.on_error
StatusCodes == {420}

\* the payloads the stream delivers: posts of the followed users, in the
\* compatibility format (the text truncated, the full text in extended_tweet)
StreamPayloads(us) ==
    {LeafPayload(us[i], 0, FALSE, TRUE, TRUE) : i \in DOMAIN us}

\* one entry of the log of stream: what happened, the seconds slept after
\* it, the follow argument of the stream.filter call made after it (None: no
\* such call), the lookup calls made after it, the Tweet passed to callback
Event(kind, slept, follow, lookups, t) ==
    [kind |-> kind, slept |-> slept, follow |-> follow, lookups |-> lookups,
     tweet |-> t]

\* StreamExcept without the except clause: a ProtocolError ends stream
StreamExcept_NoRetry(exc, uid) ==
    [caught |-> FALSE, slept |-> 0, follow |-> None, lookups |-> 0]

\* StreamExcept with a bare except: every error is slept over and retried
StreamExcept_CatchAll(exc, uid) ==
    [caught |-> TRUE, slept |-> SLEEP_SECONDS, follow |-> uid, lookups |-> 0]

\* lines 164-170: what the loop does when stream.filter raises exc; uid is
\* the local users_id
StreamExcept(exc, uid) ==
    IF exc = "ProtocolError"
    THEN [caught |-> TRUE, slept |-> SLEEP_SECONDS, follow |-> uid, lookups |-> 0]
    ELSE [caught |-> FALSE, slept |-> 0, follow |-> None, lookups |-> 0]

\* stream(users, callback) up to the first call of stream.filter
CallStream ==
    /\ pc = "idle"
    /\ \E us \in UserLists :
          /\ users' = us
          /\ \/ /\ users_id' = None
                /\ events' = <<Event("lookup_failed", 0, None, 1, None)>>
                /\ pc' = "done"
                /\ outcome' = "raised"
             \/ /\ users_id' = Some(LookupIds(us))
                /\ events' = <<Event("open", 0, Some(LookupIds(us)), 1, None)>>
                /\ pc' = "filter"
                /\ UNCHANGED outcome
    /\ op' = "stream"
    /\ UNCHANGED <<ret, collectVars, user_idx, h_result, tweetVars>>

\* Listener.on_status: the stream delivers a post
OnStatus ==
    /\ pc = "filter"
    /\ Len(events) < MaxEvents
    /\ \E p \in StreamPayloads(users) :
          events' = Append(events, Event("status", 0, None, 0, Some(Deserializer(p))))
    /\ UNCHANGED <<op, pc, outcome, ret, collectVars, historicalVars, users_id,
                   tweetVars>>

\* Listener.on_error: the stream reports a status code; it is printed
OnError ==
    /\ pc = "filter"
    /\ Len(events) < MaxEvents
    /\ \E code \in StatusCodes :
          events' = Append(events, Event("on_error", 0, None, 0, None))
    /\ UNCHANGED <<op, pc, outcome, ret, collectVars, historicalVars, users_id,
                   tweetVars>>

\* stream.filter raises: lines 167-170, then the next turn of `while True`
FilterRaises ==
    /\ pc = "filter"
    /\ Len(events) < MaxEvents
    /\ \E exc \in StreamExceptions :
          LET h == StreamExcept(exc, users_id)
          IN  /\ events' = Append(events, Event(exc, h.slept, h.follow, h.lookups, None))
              /\ IF h.caught
                 THEN UNCHANGED <<pc, outcome>>
                 ELSE pc' = "done" /\ outcome' = "raised"
    /\ UNCHANGED <<op, ret, collectVars, historicalVars, users_id, tweetVars>>

\* stream.filter returns: the next turn of `while True` calls it again
FilterReturns ==
    /\ pc = "filter"
    /\ Len(events) < MaxEvents
    /\ events' = Append(events, Event("closed", 0, users_id, 0, None))
    /\ UNCHANGED <<op, pc, outcome, ret, collectVars, historicalVars, users_id,
                   tweetVars>>

(* ---------------------------------------------------------------------- *)
(* Model Layer and presentation helpers as operations                     *)
(* ---------------------------------------------------------------------- *)

\* Tweet.deserializer(data)
CallDeserializer ==
    /\ pc = "idle"
    /\ \E p \in TweetPayloads :
          /\ data_in' = p
          /\ data' = DeserializerData(p)
          /\ tweet' = Deserializer(p)
          /\ ret' = Some(Deserializer(p))
    /\ op' = "deserializer"
    /\ pc' = "done"
    /\ outcome' = "returned"
    /\ UNCHANGED <<printed, tableVars, collectVars, historicalVars, streamVars>>

\* pretty_print(tweet) on the Tweet just built
CallPrettyPrint ==
    /\ op = "deserializer"
    /\ pc = "done"
    /\ printed' = Some(pretty_print(tweet))
    /\ ret' = Some(pretty_print(tweet))
    /\ op' = "pretty_print"
    /\ UNCHANGED <<pc, outcome, data_in, data, tweet, tableVars, collectVars,
                   historicalVars, streamVars>>

\* get_quote(tweet) on the Tweet just built
CallGetQuote ==
    /\ op = "deserializer"
    /\ pc = "done"
    /\ quote' = get_quote(tweet)
    /\ ret' = Some(get_quote(tweet))
    /\ op' = "get_quote"
    /\ UNCHANGED <<pc, outcome, data_in, data, tweet, printed, tweets, table,
                   collectVars, historicalVars, streamVars>>

\* tweets_to_df(tweets) on tweets built by Tweet.deserializer
CallTweetsToDf ==
    /\ pc = "idle"
    /\ \E ps \in RowPayloadLists :
          /\ data_in' = ps
          /\ data' = [i \in DOMAIN ps |-> DeserializerData(ps[i])]
          /\ tweets' = parse_tweets(ps)
          /\ table' = Some(tweets_to_df(parse_tweets(ps)))
          /\ ret' = Some(tweets_to_df(parse_tweets(ps)))
    /\ op' = "tweets_to_df"
    /\ pc' = "done"
    /\ outcome' = "returned"
    /\ UNCHANGED <<tweet, printed, quote, collectVars, historicalVars, streamVars>>

Next ==
    \/ CallVerifyAuthentication
    \/ CallGetTimelineTweets
    \/ CallGetHistorical
    \/ FetchRaises
    \/ FetchReturns
    \/ CallStream
    \/ OnStatus
    \/ OnError
    \/ FilterRaises
    \/ FilterReturns
    \/ CallDeserializer
    \/ CallPrettyPrint
    \/ CallGetQuote
    \/ CallTweetsToDf

Spec == Init /\ [][Next]_vars

\* the operations that run collect_tweets, with any callable as its method
NextAnyFetch ==
    \/ CallGetTimelineTweets
    \/ CallGetHistorical
    \/ FetchRaises
    \/ FetchReturns
    \/ FetchOvershoots

SpecAnyFetch == Init /\ [][NextAnyFetch]_vars

\* a fetch call returns or raises: the loop of collect_tweets is not left
\* waiting for it for ever (inside the loop the only steps are the answers
\* of the fetch call)
FairSpecAnyFetch ==
    SpecAnyFetch /\ WF_vars(pc = "loop" /\ NextAnyFetch)

(* ---------------------------------------------------------------------- *)
(* Reading the log of fetch calls                                         *)
(* ---------------------------------------------------------------------- *)

\* the positions in calls of the fetch calls of collect_tweets
FetchIdx == {i \in DOMAIN calls : calls[i].method \in {"home_timeline", "user_timeline"}}

\* call i is the first fetch call of a run of collect_tweets: get_historical
\* runs collect_tweets once per handle, and no handle is listed twice
FirstOfRun(i) == i = 1 \/ calls[i - 1].screen_name # calls[i].screen_name

\* the position of the first fetch call of the run call i belongs to
RunStart(i) == CHOOSE j \in 1..i :
                  /\ FirstOfRun(j)
                  /\ \A k \in (j + 1)..i : ~FirstOfRun(k)

RECURSIVE ReturnedIn(_, _)
\* the number of items the calls lo..hi were answered with
ReturnedIn(lo, hi) ==
    IF hi < lo THEN 0 ELSE ReturnedIn(lo, hi - 1) + Len(calls[hi].page)

\* the items returned to the run of call i before call i
ReturnedBefore(i) == ReturnedIn(RunStart(i), i - 1)

RECURSIVE PagesUpTo(_)
\* the pages of the calls 1..i, one after the other
PagesUpTo(i) == IF i = 0 THEN <<>> ELSE PagesUpTo(i - 1) \o calls[i].page

\* the number of items of the pages of calls 1..3 of the example run
ExamplePages == <<MAX_COUNT, MAX_COUNT, ExampleCount - 2 * MAX_COUNT>>

(* ---------------------------------------------------------------------- *)
(* Claims                                                                 *)
(* ---------------------------------------------------------------------- *)

\* C1: in a run of collect_tweets the first fetch call carries no max_id,
\* and every later fetch call carries max_id = (id of the last item of the
\* page the call before it returned) - 1.
C1_CursorFollowsPreviousPage ==
    \A i \in FetchIdx :
        IF FirstOfRun(i)
        THEN calls[i].max_id = None
        ELSE /\ Len(calls[i - 1].page) > 0
             /\ calls[i].max_id =
                    Some(calls[i - 1].page[Len(calls[i - 1].page)].id - 1)

\* a run whose third fetch call has been answered
C1_Witness ==
    /\ op = "get_timeline_tweets"
    /\ Len(calls) = 3
    /\ calls[3].answer = "page"
    /\ calls[3].max_id # None

\* C2: collect_tweets stops fetching as soon as the requested total is
\* satisfied or a page comes back empty, whichever is first, and not before:
\* no fetch call follows an empty page or a satisfied total in its run; an
\* operation that returned got, in its last run, the total or an empty page;
\* count = 450 answered with pages of 200, 200 and 50 items takes exactly 3
\* fetch calls; what is returned is the pages collected so far, in order.
C2_StopsWhenSatisfiedOrEmpty ==
    /\ \A i \in FetchIdx :
          /\ ReturnedBefore(i) < requested
          /\ ~FirstOfRun(i) => Len(calls[i - 1].page) > 0
    /\ (op = "get_timeline_tweets" /\ outcome = "returned") =>
          /\ \/ ReturnedIn(1, Len(calls)) = requested
             \/ /\ calls # <<>>
                /\ Len(calls[Len(calls)].page) = 0
                /\ ReturnedIn(1, Len(calls)) < requested
          /\ ret = Some(parse_tweets(PagesUpTo(Len(calls))))
    /\ (op = "get_timeline_tweets" /\ pc = "loop") =>
          /\ ReturnedIn(1, Len(calls)) < requested
          /\ calls # <<>> => Len(calls[Len(calls)].page) > 0
    /\ ( /\ op = "get_timeline_tweets"
         /\ requested = ExampleCount
         /\ Len(calls) >= 3
         /\ \A i \in 1..3 : Len(calls[i].page) = ExamplePages[i] ) =>
          /\ Len(calls) = 3
          /\ outcome = "returned"
          /\ Len(ret[1]) = ExampleCount

\* the example run: 450 requested, pages of 200, 200 and 50 items
C2_Witness ==
    /\ op = "get_timeline_tweets"
    /\ requested = ExampleCount
    /\ Len(calls) = 3
    /\ \A i \in 1..3 : Len(calls[i].page) = ExamplePages[i]
    /\ outcome = "returned"

\* C3: every fetch call asks for count = min(200, remaining), remaining
\* being the requested count minus the items all earlier pages of the run
\* returned; no fetch call asks for more than 200 items.
C3_CountIsMinOfPageSizeAndRemaining ==
    \A i \in FetchIdx :
        /\ calls[i].count = Min(200, requested - ReturnedBefore(i))
        /\ calls[i].count <= 200

\* a run whose second page came one item short: the third call asks for 51
C3_Witness ==
    /\ op = "get_timeline_tweets"
    /\ requested = ExampleCount
    /\ Len(calls) = 3
    /\ calls[1].count = MAX_COUNT
    /\ Len(calls[2].page) = MAX_COUNT - 1
    /\ calls[3].count = ExampleCount - 2 * MAX_COUNT + 1

\* C4: in stream, every transport-layer error (urllib3's ProtocolError) is
\* followed by a sleep of 15 seconds and then by a stream.filter call with
\* the id filter of the first one, without another lookup; however many
\* transport errors there were, stream has neither returned nor raised.
C4_TransportErrorRetriesForever ==
    \A i \in DOMAIN events :
        events[i].kind = "ProtocolError" =>
            /\ events[1].kind = "open"
            /\ events[i].slept = 15
            /\ events[i].follow # None
            /\ events[i].follow = events[1].follow
            /\ events[i].follow = Some(LookupIds(users))
            /\ events[i].lookups = 0
            /\ i = Len(events) => pc = "filter" /\ outcome = "none"

\* the stream opened and then nothing but transport errors, and stream is
\* still inside stream.filter
C4_Witness ==
    /\ op = "stream"
    /\ Len(events) = MaxEvents
    /\ \A i \in 2..Len(events) : events[i].kind = "ProtocolError"
    /\ users # <<>>
    /\ pc = "filter"

\* C5: an exception of the external API other than one raised by the
\* credential check or a transport error of the stream is not caught or
\* retried: a fetch call that raises, a handle lookup that raises and a
\* non-transport error raised by stream.filter each end the operation with
\* that exception, and no fetch, reopening or sleep follows.
C5_OtherFailuresPropagate ==
    /\ \A i \in FetchIdx :
          calls[i].answer = "raised" =>
              /\ i = Len(calls)
              /\ pc = "done"
              /\ outcome = "raised"
              /\ ret = None
    /\ \A i \in DOMAIN events :
          /\ events[i].kind = "lookup_failed" =>
                /\ Len(events) = 1
                /\ events[i].follow = None
                /\ events[i].lookups = 1
                /\ events[i].slept = 0
                /\ pc = "done"
                /\ outcome = "raised"
          /\ events[i].kind \in StreamExceptions \ {"ProtocolError"} =>
                /\ i = Len(events)
                /\ events[i].follow = None
                /\ events[i].lookups = 0
                /\ events[i].slept = 0
                /\ pc = "done"
                /\ outcome = "raised"

\* get_historical fails on a fetch call for its second user, after pages of
\* the first one
C5_Witness ==
    /\ op = "get_historical"
    /\ outcome = "raised"
    /\ user_idx = 2
    /\ h_result # <<>>
    /\ calls[Len(calls)].answer = "raised"

\* the position in users of the handle a fetch call names
UserPos(c) == CHOOSE k \in DOMAIN users : Some(users[k]) = c.screen_name

\* C6: get_historical returns the tweets of one run of collect_tweets per
\* user, the runs one after the other in the order of the input list: the
\* fetch calls of a user all come before those of the next user, the first
\* fetch call of each user has no cursor and the full count per user as its
\* budget, and the value returned is the pages in the order fetched.
C6_HistoricalConcatenatesRunsInOrder ==
    op = "get_historical" =>
        /\ \A i \in FetchIdx :
              /\ calls[i].method = "user_timeline"
              /\ \E k \in DOMAIN users : Some(users[k]) = calls[i].screen_name
              /\ FirstOfRun(i) =>
                    /\ calls[i].max_id = None
                    /\ calls[i].count = Min(200, requested)
        /\ \A i, j \in FetchIdx : i < j => UserPos(calls[i]) <= UserPos(calls[j])
        /\ outcome = "returned" =>
              /\ ret = Some(parse_tweets(PagesUpTo(Len(calls))))
              /\ requested > 0 =>
                    \A k \in DOMAIN users :
                        \E i \in FetchIdx : calls[i].screen_name = Some(users[k])

\* two users, two pages for the first and one for the second
C6_Witness ==
    /\ op = "get_historical"
    /\ outcome = "returned"
    /\ Len(users) = 2
    /\ Len(calls) = 3
    /\ calls[2].screen_name = Some(users[1])
    /\ calls[3].screen_name = Some(users[2])
    /\ \A i \in 1..3 : Len(calls[i].page) > 0

\* C7: verify_authentication never raises: it returns True exactly when
\* verify_credentials returns a truthy record, and False when that call
\* raises or returns a falsy value.
C7_VerifyNeverRaises ==
    op = "verify_authentication" =>
        /\ Len(calls) = 1
        /\ outcome = "returned"
        /\ ret = Some(calls[1].answer = "identity")

\* the credential check raised and False came back
C7_Witness ==
    /\ op = "verify_authentication"
    /\ calls[1].answer = "raised"
    /\ ret = Some(FALSE)

\* a Tweet has been built from the payload data_in
Deserialized == op \in {"deserializer", "pretty_print", "get_quote"}

RECURSIVE PostsOf(_, _)
\* a payload and the Tweet built from it, with the nested ones, as pairs
PostsOf(d, t) ==
    {<<d, t>>}
    \cup (IF Has(d, "quoted_status") /\ t.quoted_status # None
          THEN PostsOf(d.quoted_status, t.quoted_status) ELSE {})
    \cup (IF Has(d, "retweeted_status") /\ t.retweeted_status # None
          THEN PostsOf(d.retweeted_status, t.retweeted_status) ELSE {})

\* the source of full_text the priority order of C8 selects for payload d
FirstAvailableText(d) ==
    CASE "full_text" \in DOMAIN d -> d["full_text"]
      [] "full_text" \notin DOMAIN d /\ d["truncated"]
            /\ "extended_tweet" \in DOMAIN d -> d["extended_tweet"]["full_text"]
      [] "full_text" \notin DOMAIN d
            /\ ~(d["truncated"] /\ "extended_tweet" \in DOMAIN d)
            /\ "retweeted_status" \in DOMAIN d
            /\ "extended_tweet" \in DOMAIN d["retweeted_status"] ->
                d["retweeted_status"]["extended_tweet"]["full_text"]
      [] OTHER -> d["text"]

\* C8: the full_text of a deserialized post is the first available of: the
\* payload's own full_text; the extension record's full text when the
\* payload is marked truncated and has one; the extension record's full
\* text of the retweeted post when there is one; the short text.  It is a
\* string, never absent.  (Checked for the post and every post nested in it.)
C8_FullTextByPriority ==
    Deserialized =>
        \A p \in PostsOf(data_in, tweet) :
            /\ p[2].full_text = FirstAvailableText(p[1])
            /\ p[2].full_text \in STRING

\* a truncated payload without full_text and without an extension record of
\* its own, retweeting a post that has one: source (3) is taken
C8_Witness ==
    /\ op = "deserializer"
    /\ ~Has(data_in, "full_text")
    /\ data_in.truncated
    /\ ~Has(data_in, "extended_tweet")
    /\ Has(data_in, "retweeted_status")
    /\ Has(data_in.retweeted_status, "extended_tweet")
    /\ tweet.full_text = data_in.retweeted_status.extended_tweet.full_text

\* C9: a call of Tweet.deserializer leaves the payload passed in as it was:
\* no key added, removed or rewritten at any nesting level.
C9_DeserializerLeavesPayloadUnchanged ==
    Deserialized => data = data_in

\* the four templates of pretty_print, by their lines
TemplateA(t) ==
    <<"A new retweet",
      "sender: " \o t.user.screen_name,
      "retweet from: " \o t.retweeted_status.user.screen_name,
      "text: " \o t.retweeted_status.full_text>>

TemplateB(t) ==
    <<"A new retweet",
      "sender: " \o t.user.screen_name,
      "retweet from: " \o t.retweeted_status.user.screen_name,
      "quoted from: " \o t.retweeted_status.quoted_status.user.screen_name,
      "text: " \o t.retweeted_status.full_text,
      "origin text: " \o t.retweeted_status.quoted_status.full_text>>

TemplateC(t) ==
    <<"A new quoted tweet",
      "sender: " \o t.user.screen_name,
      "quoted from: " \o t.quoted_status.user.screen_name,
      "quote text: " \o t.full_text,
      "origin text: " \o t.quoted_status.full_text>>

TemplateD(t) ==
    <<"A new tweet",
      "sender: " \o t.user.screen_name,
      "text: " \o t.full_text>>

\* the template a rendering follows, told by its first line and its length
\* ("none" when it follows none of the four)
TemplateOf(lines) ==
    CASE lines[1] = "A new retweet" /\ Len(lines) = 4 -> "a"
      [] lines[1] = "A new retweet" /\ Len(lines) = 6 -> "b"
      [] lines[1] = "A new quoted tweet" /\ Len(lines) = 5 -> "c"
      [] lines[1] = "A new tweet" /\ Len(lines) = 3 -> "d"
      [] OTHER -> "none"

\* C10: pretty_print renders every post with exactly one of its four
\* templates: (a) when the post has a retweeted_status without a
\* quoted_status, (b) when it has a retweeted_status with a quoted_status,
\* (c) when it has no retweeted_status but a quoted_status, (d) otherwise;
\* a post with a retweeted_status is never rendered with (c).
C10_TemplateSelection ==
    op = "pretty_print" =>
        LET t == tweet
            lines == printed[1]
        IN  /\ TemplateOf(lines) \in {"a", "b", "c", "d"}
            /\ IF t.retweeted_status # None /\ t.retweeted_status.quoted_status = None
               THEN TemplateOf(lines) = "a" /\ lines = TemplateA(t)
               ELSE IF t.retweeted_status # None
               THEN TemplateOf(lines) = "b" /\ lines = TemplateB(t)
               ELSE IF t.quoted_status # None
               THEN TemplateOf(lines) = "c" /\ lines = TemplateC(t)
               ELSE TemplateOf(lines) = "d" /\ lines = TemplateD(t)
            /\ t.retweeted_status # None => TemplateOf(lines) # "c"

\* a post with a retweeted_status and a quoted_status of its own, whose
\* retweeted post quotes nothing: rendered as a plain retweet
C10_Witness ==
    /\ op = "pretty_print"
    /\ tweet.retweeted_status # None
    /\ tweet.quoted_status # None
    /\ tweet.retweeted_status.quoted_status = None
    /\ TemplateOf(printed[1]) = "a"

RECURSIVE InnermostOriginal(_)
\* the post reached from t by following retweeted_status links to the end
InnermostOriginal(t) ==
    IF t.retweeted_status = None THEN t ELSE InnermostOriginal(t.retweeted_status)

\* C11: get_quote follows retweeted_status links first, to any depth, and
\* reports the quote of the innermost original post: the handle and the full
\* text of that post's quoted_status (for a post that is no retweet: of its
\* own quoted_status; for a retweet its own quoted_status is ignored), and
\* (None, None) exactly when the post reached quotes nothing.
C11_QuoteOfInnermostOriginal ==
    op = "get_quote" =>
        LET o == InnermostOriginal(tweet)
        IN  /\ o.quoted_status = None <=> quote = <<None, None>>
            /\ o.quoted_status # None =>
                  quote = <<Some(o.quoted_status.user.screen_name),
                            Some(o.quoted_status.full_text)>>
            /\ tweet.retweeted_status = None => o = tweet

\* a retweet of a retweet of a quote that carries a quoted_status of its own:
\* the quote reported is the one of the original, two links down
C11_Witness ==
    /\ op = "get_quote"
    /\ tweet.quoted_status # None
    /\ tweet.retweeted_status # None
    /\ tweet.retweeted_status.retweeted_status # None
    /\ tweet.retweeted_status.retweeted_status.quoted_status # None
    /\ quote[1] = Some(tweet.retweeted_status.retweeted_status.quoted_status.user.screen_name)
    /\ quote[1] # Some(tweet.quoted_status.user.screen_name)

\* none of the optional keys quoted_status, retweeted_status is in payload d
NoOptionalFields(d) == DOMAIN d \cap {"quoted_status", "retweeted_status"} = {}

\* C12: tweets_to_df makes exactly one row per tweet, in input order;
\* is_retweet is True when the tweet has a retweeted_status and False
\* otherwise; is_quote is True when get_quote yields a handle and None (never
\* False) otherwise; a tweet built from a payload without optional fields
\* gets is_retweet = False, is_quote = None and None in retweet_sender,
\* quoted_tweet_sender and quoted_tweet_text.
C12_OneRowPerTweet ==
    op = "tweets_to_df" =>
        /\ Len(table[1].columns) = 8
        /\ DOMAIN table[1].rows = DOMAIN tweets
        /\ \A i \in DOMAIN tweets :
              LET t == tweets[i]
                  row == table[1].rows[i]
              IN  /\ Len(row) = 8
                  /\ row[1] = t.created_at
                  /\ row[2] = t.user.screen_name
                  /\ row[3] = t.full_text
                  /\ row[4] \in BOOLEAN
                  /\ row[4] = (t.retweeted_status # None)
                  /\ row[6] \in {Some(TRUE), None}
                  /\ row[6] = Some(TRUE) <=> get_quote(t)[1] # None
                  /\ row[7] = get_quote(t)[1]
                  /\ NoOptionalFields(data_in[i]) =>
                        /\ row[4] = FALSE
                        /\ row[6] = None
                        /\ row[5] = None
                        /\ row[7] = None
                        /\ row[8] = None

\* a table of two tweets: a retweet of a quote, then a post built from a
\* payload without optional fields (and without the key full_text)
C12_Witness ==
    /\ op = "tweets_to_df"
    /\ Len(tweets) = 2
    /\ table[1].rows[1][4] = TRUE
    /\ table[1].rows[1][6] = Some(TRUE)
    /\ NoOptionalFields(data_in[2])
    /\ ~Has(data_in[2], "full_text")
    /\ table[1].rows[2][4] = FALSE
    /\ table[1].rows[2][6] = None

\* the method has so far never returned more items than the count asked for
NoOvershoot == \A i \in FetchIdx : Len(calls[i].page) <= calls[i].count

\* the number of fetch calls of the run of call i, up to call i
CallsInRun(i) == i - RunStart(i) + 1

\* collect_tweets is running or has run, for the home timeline
Collecting == op = "get_timeline_tweets"

\* C13, what holds at every moment of a run whose method keeps to the count
\* asked for: at most `count` fetch calls (none for count = 0), at most
\* `count` items collected, the loop goes on only with a positive remainder
\* that bounds the calls still to come, and what is returned is the pages in
\* the order fetched.
C13_Bounded ==
    NoOvershoot =>
        /\ \A i \in FetchIdx : CallsInRun(i) <= requested
        /\ op \in {"get_timeline_tweets", "get_historical"} =>
              /\ Len(result) <= requested
              /\ pc = "loop" => cnt >= 1 /\ cnt = requested - Len(result)
        /\ Collecting =>
              /\ requested = 0 => calls = <<>> /\ outcome = "returned"
              /\ pc = "loop" => Len(calls) + cnt <= requested
              /\ outcome = "returned" =>
                    /\ Len(ret[1]) <= requested
                    /\ ret = Some(parse_tweets(PagesUpTo(Len(calls))))

\* C13: for every count >= 0 and every method that never returns more items
\* than the count it was asked for, collect_tweets terminates, having issued
\* no fetch call when count is 0 and at most `count` fetch calls otherwise,
\* and returns at most `count` items, the pages in the order fetched.
C13_TerminatesWithinCount ==
    /\ []C13_Bounded
    /\ (pc = "loop") ~> (pc = "done" \/ ~NoOvershoot)

\* a run that took as many fetch calls as items were asked for, each page
\* holding one item, and returned them
C13_Witness ==
    /\ Collecting
    /\ requested = MaxSmallCount
    /\ Len(calls) = requested
    /\ \A i \in DOMAIN calls : Len(calls[i].page) = 1
    /\ outcome = "returned"
    /\ Len(ret[1]) = requested

====
